---- MODULE Spec2Model ----
(***************************************************************************)
(* Lumora: the daily-challenge generator (aiService), the storage service  *)
(* (storageService) and the app bootstrap (App.initializeApp), modelled as *)
(* a state machine over the AsyncStorage key-value store.                  *)
(*                                                                         *)
(* Time is counted in hours.  A calendar day is what Date.toDateString()   *)
(* prints in the device's zone; the zone is fixed, or has one 23-hour day  *)
(* (clocks go forward) or one 25-hour day (clocks go back).                *)
(* Of a challenge, the texts (title, description, type) and the hour and   *)
(* weekday among its personalization factors are not modelled.             *)
(***************************************************************************)
EXTENDS Integers, Sequences, FiniteSets, TLC

\* ------------------------------------------------------------------ bounds
\* The clock starts on day 1 (day 0 lies before the start) and reaches day MaxDay
\* where the generator is followed, day MaxProgressDay where the streak is.
MaxDay == 2
MaxProgressDay == 3
\* No completion is recorded once the profile holds this many records.
MaxCompleted == 3
\* No operation is called once this many have been (the clock is not counted).
MaxOps == 4
\* A configured category list has at most this many entries.
MaxCategories == 3
\* A stored history the generator is started on is at most this much short of
\* HISTORY_LIMIT.
MaxShort == 1

\* ------------------------------------------------------- program constants
\* 24 * 60 * 60 * 1000 ms, in hours.
DAY_MS == 24
\* "Keep only last 100 challenges".
HISTORY_LIMIT == 100
\* selected.length < 3 / slice(0, 3).
BATCH_SIZE == 3
\* challengeHistory.slice(-10).
RECENT_WINDOW == 10

VARIABLES
    tz,                \* the device's zone: "fixed", "spring" or "fall"
    now,               \* Date.now(), in hours
    storage,           \* AsyncStorage: key -> stored string
    userPreferences,   \* aiChallengeGenerator.userPreferences
    challengeHistory,  \* aiChallengeGenerator.challengeHistory
    isLoading,         \* App's isLoading state
    userData,          \* App's userData state
    call,              \* the last operation called and what it returned
    ops,               \* the steps (operations and clock moves) taken so far
    inflight           \* the getTodaysChallenges calls waiting at an await, per caller

vars == <<tz, now, storage, userPreferences, challengeHistory, isLoading, userData, call, ops,
          inflight>>

\* ------------------------------------------------------------ JS values
\* null (and a completedAt of null).
Null == [kind |-> "null"]
NoTime == 0 - 1
\* undefined, as a category name (availableCategories[0] of an empty list).
Undefined == "undefined"

\* --------------------------------------------------------- calendar days
Zones == {"fixed", "spring", "fall"}

LastDay == IF MaxDay > MaxProgressDay THEN MaxDay ELSE MaxProgressDay
\* The day that is 23 or 25 hours long in a zone with a clock change.
TransitionDay == MaxProgressDay - 1

DayLength(z, d) ==
    IF d # TransitionDay THEN DAY_MS
    ELSE IF z = "spring" THEN DAY_MS - 1
    ELSE IF z = "fall" THEN DAY_MS + 1
    ELSE DAY_MS

RECURSIVE DayStart(_, _)
DayStart(z, d) == IF d = 0 THEN 0 ELSE DayStart(z, d - 1) + DayLength(z, d - 1)

\* new Date(t).toDateString(): the calendar day of instant t.
toDateString(z, t) ==
    CHOOSE d \in 0..(LastDay + 1) : DayStart(z, d) <= t /\ t < DayStart(z, d + 1)

\* The instants the clock takes: the first and the last hour of a day.
Instants(z, last) ==
    UNION { {DayStart(z, d), DayStart(z, d + 1) - 1} : d \in 1..last }

\* ------------------------------------------------------------- AsyncStorage
\* A key holds nothing, a string that is JSON text, or a string that is not.
Absent == [kind |-> "absent"]
Malformed == [kind |-> "bad"]

\* JSON.stringify(v): every value the program writes is made of strings,
\* numbers, booleans, null, arrays and plain objects, which JSON text holds as is.
Stringify(v) == [kind |-> "json", val |-> v]

\* JSON.parse(s): throws on text that is not JSON.
Parse(s) == IF s.kind = "json" THEN [threw |-> FALSE, val |-> s.val]
            ELSE [threw |-> TRUE, val |-> Null]

\* A string is truthy unless it is null (no stored string is empty).
Truthy(s) == s.kind # "absent"

NoDay == 0 - 1
Key(name) == [name |-> name, day |-> NoDay]
\* `dailyChallenges_${today}`
DailyKey(d) == [name |-> "dailyChallenges_", day |-> d]

Keys == {Key("userData"), Key("userPreferences"), Key("challengeHistory"),
         Key("dailyChallenges")} \cup {DailyKey(d) : d \in 0..(LastDay + 1)}

\* AsyncStorage.getItem(key), which throws when `fail`.
getItem(st, k, fail) == IF fail THEN [threw |-> TRUE, val |-> Absent]
                        ELSE [threw |-> FALSE, val |-> st[k]]

\* AsyncStorage.setItem(key, value), which throws when `fail` and stores nothing.
setItem(st, k, v, fail) == IF fail THEN [threw |-> TRUE, st |-> st]
                           ELSE [threw |-> FALSE, st |-> [st EXCEPT ![k] = v]]

\* AsyncStorage.multiRemove(keys)
multiRemove(st, ks, fail) ==
    IF fail THEN [threw |-> TRUE, st |-> st]
    ELSE [threw |-> FALSE, st |-> [k \in Keys |-> IF k \in ks THEN Absent ELSE st[k]]]

\* ------------------------------------------------------------ corpus
\* The keys of CHALLENGE_TEMPLATES.
CHALLENGE_TEMPLATES == {"personal", "health", "learning"}

\* A table whose times do not follow the difficulty.
ModifiersOfOneTime ==
    [easy   |-> [time |-> 15, effort |-> 1, complexity |-> 1],
     medium |-> [time |-> 15, effort |-> 2, complexity |-> 2],
     hard   |-> [time |-> 15, effort |-> 3, complexity |-> 3]]

DIFFICULTY_MODIFIERS ==
    [easy   |-> [time |-> 5,  effort |-> 1, complexity |-> 1],
     medium |-> [time |-> 15, effort |-> 2, complexity |-> 2],
     hard   |-> [time |-> 30, effort |-> 3, complexity |-> 3]]

\* The generator's default preferences.
DefaultPreferences ==
    [difficulty |-> "medium", categories |-> <<"personal", "health", "learning">>]

\* The preferences a settings screen stores.
PreferenceChoices ==
    { [difficulty |-> "easy",   categories |-> <<"health">>],
      [difficulty |-> "medium", categories |-> <<>>] }

\* ------------------------------------------------------- AIChallengeGenerator
\* loadUserPreferences: the preferences after the call; `cur` is kept when the
\* read or the parse throws.
loadUserPreferences(st, cur, fail) ==
    LET prefs == getItem(st, Key("userPreferences"), fail)
    IN  IF prefs.threw THEN cur
        ELSE IF ~Truthy(prefs.val) THEN DefaultPreferences
        ELSE IF Parse(prefs.val).threw THEN cur
        ELSE Parse(prefs.val).val

\* loadChallengeHistory (of the generator): the history after the call.
genLoadChallengeHistory(st, cur, fail) ==
    LET history == getItem(st, Key("challengeHistory"), fail)
    IN  IF history.threw THEN cur
        ELSE IF ~Truthy(history.val) THEN <<>>
        ELSE IF Parse(history.val).threw THEN cur
        ELSE Parse(history.val).val

\* initialize: both loads, in order.
initialize(st, prefs, hist, f1, f2) ==
    [prefs |-> loadUserPreferences(st, prefs, f1),
     hist  |-> genLoadChallengeHistory(st, hist, f2)]

RemoveAt(s, i) == SubSeq(s, 1, i - 1) \o SubSeq(s, i + 1, Len(s))

\* A first loop that leaves the drawn category in the list.
RECURSIVE DrawRepeating(_, _)
DrawRepeating(selected, categories) ==
    IF Len(selected) < BATCH_SIZE /\ Len(categories) > 0
    THEN UNION { DrawRepeating(Append(selected, categories[i]), categories) :
                 i \in 1..Len(categories) }
    ELSE {selected}

\* The first loop of selectCategories: draws without replacement.
RECURSIVE DrawDistinct(_, _)
DrawDistinct(selected, categories) ==
    IF Len(selected) < BATCH_SIZE /\ Len(categories) > 0
    THEN UNION { DrawDistinct(Append(selected, categories[i]), RemoveAt(categories, i)) :
                 i \in 1..Len(categories) }
    ELSE {selected}

\* A generator that repeats a category of its own rather than a configured one.
RandomCategoryOfCorpus(availableCategories) == {"personal"}

\* availableCategories[Math.floor(Math.random() * availableCategories.length)]
RandomCategory(availableCategories) ==
    IF Len(availableCategories) = 0 THEN {Undefined}
    ELSE {availableCategories[i] : i \in 1..Len(availableCategories)}

\* A selection that is not filled up to three.
PadNothing(selected, availableCategories) == {selected}

\* The second loop of selectCategories: repeats categories up to three.
RECURSIVE Pad(_, _)
Pad(selected, availableCategories) ==
    IF Len(selected) < BATCH_SIZE
    THEN UNION { Pad(Append(selected, c), availableCategories) :
                 c \in RandomCategory(availableCategories) }
    ELSE {selected}

\* selected.slice(0, n): the first n entries, or all when there are fewer.
sliceFirst(s, n) == SubSeq(s, 1, IF Len(s) < n THEN Len(s) ELSE n)

\* selectCategories: every selection the random draws can give.
selectCategories(availableCategories) ==
    { sliceFirst(s, BATCH_SIZE) :
      s \in UNION { Pad(d, availableCategories) : d \in DrawDistinct(<<>>, availableCategories) } }

RECURSIVE Gcd(_, _)
Gcd(a, b) == IF b = 0 THEN a ELSE Gcd(b, a % b)

\* A ratio as <<numerator, denominator>> in lowest terms.
Ratio(a, b) == <<a \div Gcd(a, b), b \div Gcd(a, b)>>

\* calculateSuccessRate: 0.8 on an empty history.
calculateSuccessRate(hist) ==
    IF Len(hist) = 0 THEN Ratio(4, 5)
    ELSE Ratio(Cardinality({i \in 1..Len(hist) : hist[i].completed}), Len(hist))

\* getRecentCategories: the count of each category among the last ten entries.
getRecentCategories(hist) ==
    LET from == IF Len(hist) > RECENT_WINDOW THEN Len(hist) - RECENT_WINDOW + 1 ELSE 1
        recent == SubSeq(hist, from, Len(hist))
    IN  [c \in {recent[i].category : i \in 1..Len(recent)} |->
            Cardinality({i \in 1..Len(recent) : recent[i].category = c})]

getPersonalizationFactors(prefs, hist) ==
    [userDifficulty   |-> prefs.difficulty,
     recentCategories |-> getRecentCategories(hist),
     successRate      |-> calculateSuccessRate(hist)]

\* generateChallengeForCategory: throws on a category without templates
\* (templates.length of undefined) or a difficulty without modifiers.
generateChallengeForCategory(category, index, prefs, hist, t) ==
    IF category \notin CHALLENGE_TEMPLATES \/ prefs.difficulty \notin DOMAIN DIFFICULTY_MODIFIERS
    THEN [threw |-> TRUE, val |-> Null]
    ELSE [threw |-> FALSE,
          val |-> [id            |-> <<t, index>>,
                   category      |-> category,
                   difficulty    |-> prefs.difficulty,
                   estimatedTime |-> DIFFICULTY_MODIFIERS[prefs.difficulty].time,
                   effortLevel   |-> DIFFICULTY_MODIFIERS[prefs.difficulty].effort,
                   complexity    |-> DIFFICULTY_MODIFIERS[prefs.difficulty].complexity,
                   createdAt     |-> t,
                   completed     |-> FALSE,
                   completedAt   |-> NoTime,
                   personalizationFactors |-> getPersonalizationFactors(prefs, hist)]]

\* The forEach of generateDailyChallenges over one selection.
challengesFor(selected, prefs, hist, t) ==
    LET made == [i \in 1..Len(selected) |->
                    generateChallengeForCategory(selected[i], i - 1, prefs, hist, t)]
    IN  IF \E i \in 1..Len(selected) : made[i].threw
        THEN [threw |-> TRUE, val |-> <<>>]
        ELSE [threw |-> FALSE, val |-> [i \in 1..Len(selected) |-> made[i].val]]

\* generateDailyChallenges: every outcome the random draws can give; it throws
\* when userPreferences is null (userPreferences.categories).
generateDailyChallenges(prefs, hist, t) ==
    IF prefs = Null THEN {[threw |-> TRUE, val |-> <<>>]}
    ELSE { challengesFor(selected, prefs, hist, t) : selected \in selectCategories(prefs.categories) }

\* A save that appends to the history and leaves the day's key unwritten.
saveChallengesHistoryOnly(st, hist, z, t, challenges, f1, f2) ==
    LET pushed == hist \o challenges
        w2 == setItem(st, Key("challengeHistory"), Stringify(pushed), f2)
    IN  IF w2.threw THEN [st |-> st, hist |-> pushed, ret |-> FALSE]
        ELSE [st |-> w2.st, hist |-> pushed, ret |-> TRUE]

\* saveChallenges: the day's key is written, then the batch is pushed on the
\* in-memory history and that history is written whole.
saveChallenges(st, hist, z, t, challenges, f1, f2) ==
    LET today == toDateString(z, t)
        w1 == setItem(st, DailyKey(today), Stringify(challenges), f1)
        pushed == hist \o challenges
        w2 == setItem(w1.st, Key("challengeHistory"), Stringify(pushed), f2)
    IN  IF w1.threw THEN [st |-> st, hist |-> hist, ret |-> FALSE]
        ELSE IF w2.threw THEN [st |-> w1.st, hist |-> pushed, ret |-> FALSE]
        ELSE [st |-> w2.st, hist |-> pushed, ret |-> TRUE]

\* A getTodaysChallenges that generates and saves whatever is cached.
getTodaysChallengesUncached(st, hist, z, t, gen, f1, f2, f3) ==
    LET saved == saveChallenges(st, hist, z, t, gen.val, f2, f3)
    IN  IF gen.threw
        THEN [st |-> st, hist |-> hist, ret |-> <<>>, generated |-> FALSE, failed |-> FALSE]
        ELSE [st |-> saved.st, hist |-> saved.hist, ret |-> gen.val, generated |-> TRUE,
              failed |-> ~saved.ret]

\* getTodaysChallenges with the generation's outcome `gen`: the cached batch of
\* the day if one is stored, else the new batch, saved; [] when anything throws.
getTodaysChallenges(st, hist, z, t, gen, f1, f2, f3) ==
    LET today == toDateString(z, t)
        challenges == getItem(st, DailyKey(today), f1)
        saved == saveChallenges(st, hist, z, t, gen.val, f2, f3)
    IN  IF challenges.threw
        THEN [st |-> st, hist |-> hist, ret |-> <<>>, generated |-> FALSE, failed |-> TRUE]
        ELSE IF Truthy(challenges.val)
        THEN [st |-> st, hist |-> hist, generated |-> FALSE,
              ret |-> IF Parse(challenges.val).threw THEN <<>> ELSE Parse(challenges.val).val,
              failed |-> Parse(challenges.val).threw]
        ELSE IF gen.threw
        THEN [st |-> st, hist |-> hist, ret |-> <<>>, generated |-> FALSE, failed |-> FALSE]
        ELSE [st |-> saved.st, hist |-> saved.hist, ret |-> gen.val, generated |-> TRUE,
              failed |-> ~saved.ret]

\* ------------------------------------------------------------ storageService
\* The boolean false, as loadUserData returns it on an error.
False == [kind |-> "false"]

\* saveUserData: the store after the call; an error is logged and dropped.
saveUserData(st, profile, fail) ==
    LET w == setItem(st, Key("userData"), Stringify(profile), fail)
    IN  [st |-> w.st, ret |-> ~w.threw]

\* loadUserData: the stored profile, null when none is stored, false on an error.
loadUserData(st, fail) ==
    LET stored == getItem(st, Key("userData"), fail)
    IN  IF stored.threw THEN False
        ELSE IF ~Truthy(stored.val) THEN Null
        ELSE IF Parse(stored.val).threw THEN False
        ELSE Parse(stored.val).val

\* `if (savedData)` / `if (!userData)`: null and false are falsy, a profile is not.
IsProfile(v) == v # Null /\ v # False

\* The streak after a completion at instant t: completedChallenges is the list
\* before the push, so its last record is completedChallenges[length - 2] after it.
nextStreak(profile, z, t) ==
    LET n == Len(profile.completedChallenges)
        today == toDateString(z, t)
        yesterday == toDateString(z, t - DAY_MS)
        lastDate == toDateString(z, profile.completedChallenges[n].completedAt)
    IN  IF n = 0 THEN 1
        ELSE IF lastDate = yesterday THEN profile.currentStreak + 1
        ELSE IF lastDate # today THEN 1
        ELSE profile.currentStreak

\* A completion that adds its record and leaves the total as it was.
progressedUncounted(profile, z, t, challengeId, completed) ==
    IF ~completed THEN profile
    ELSE [profile EXCEPT
            !.completedChallenges = Append(@, [id |-> challengeId, completedAt |-> t]),
            !.currentStreak = nextStreak(profile, z, t)]

\* A progress update that records a completion whatever `completed` is.
progressedAlways(profile, z, t, challengeId, completed) ==
    [profile EXCEPT
        !.completedChallenges = Append(@, [id |-> challengeId, completedAt |-> t]),
        !.totalChallenges = @ + 1,
        !.currentStreak = nextStreak(profile, z, t)]

\* The profile updateUserProgress saves.
progressed(profile, z, t, challengeId, completed) ==
    IF ~completed THEN profile
    ELSE [profile EXCEPT
            !.completedChallenges = Append(@, [id |-> challengeId, completedAt |-> t]),
            !.totalChallenges = @ + 1,
            !.currentStreak = nextStreak(profile, z, t)]

\* updateUserProgress
updateUserProgress(st, z, t, challengeId, completed, f1, f2) ==
    LET loaded == loadUserData(st, f1)
    IN  IF ~IsProfile(loaded) THEN [st |-> st, ret |-> FALSE]
        ELSE [st |-> saveUserData(st, progressed(loaded, z, t, challengeId, completed), f2).st,
              ret |-> TRUE]

\* loadChallengeHistory (of the storage service): [] on an error.
loadChallengeHistory(st, fail) ==
    LET history == getItem(st, Key("challengeHistory"), fail)
    IN  IF history.threw \/ ~Truthy(history.val) \/ Parse(history.val).threw THEN <<>>
        ELSE Parse(history.val).val

\* The splice of saveChallengeHistory: the last HISTORY_LIMIT entries.
keepLast(updatedHistory) ==
    IF Len(updatedHistory) > HISTORY_LIMIT
    THEN SubSeq(updatedHistory, Len(updatedHistory) - HISTORY_LIMIT + 1, Len(updatedHistory))
    ELSE updatedHistory

\* saveChallengeHistory
saveChallengeHistory(st, challenges, f1, f2) ==
    LET history == loadChallengeHistory(st, f1)
        w == setItem(st, Key("challengeHistory"), Stringify(keepLast(history \o challenges)), f2)
    IN  [st |-> w.st, ret |-> ~w.threw]

\* The map of markChallengeCompleted.
markIn(history, challengeId, t) ==
    [i \in 1..Len(history) |->
        IF history[i].id = challengeId
        THEN [history[i] EXCEPT !.completed = TRUE, !.completedAt = t]
        ELSE history[i]]

\* markChallengeCompleted
markChallengeCompleted(st, z, t, challengeId, f1, f2, f3, f4) ==
    LET history == loadChallengeHistory(st, f1)
        w == setItem(st, Key("challengeHistory"), Stringify(markIn(history, challengeId, t)), f2)
    IN  IF w.threw THEN [st |-> st, ret |-> FALSE]
        ELSE [st |-> updateUserProgress(w.st, z, t, challengeId, TRUE, f3, f4).st, ret |-> TRUE]

\* saveUserPreferences
saveUserPreferences(st, preferences, fail) ==
    LET w == setItem(st, Key("userPreferences"), Stringify(preferences), fail)
    IN  [st |-> w.st, ret |-> ~w.threw]

\* clearAllData: the four keys it names.
clearAllData(st, fail) ==
    LET w == multiRemove(st, {Key("userData"), Key("challengeHistory"),
                              Key("userPreferences"), Key("dailyChallenges")}, fail)
    IN  [st |-> w.st, ret |-> ~w.threw]

\* ----------------------------------------------------------------------- App
\* The profile of a new user.
newUserData(t) ==
    [id |-> t, joinDate |-> t, completedChallenges |-> <<>>, currentStreak |-> 0,
     totalChallenges |-> 0, preferences |-> DefaultPreferences]

\* initializeApp: the profile is loaded or created and saved, then the generator
\* is initialized.
initializeApp(st, prefs, hist, t, f1, f2, f3, f4) ==
    LET savedData == loadUserData(st, f1)
        st1 == IF IsProfile(savedData) THEN st ELSE saveUserData(st, newUserData(t), f2).st
        gen == initialize(st1, prefs, hist, f3, f4)
    IN  [st |-> st1,
         userData |-> IF IsProfile(savedData) THEN savedData ELSE newUserData(t),
         prefs |-> gen.prefs, hist |-> gen.hist,
         loaded |-> savedData]

\* ------------------------------------------------------------------ actions
\* The callers of getTodaysChallenges whose calls can be in flight together.
Callers == {"load", "refresh"}

\* A caller that has not called.
Idle == [pc |-> "idle", got |-> [threw |-> FALSE, val |-> Absent], batch |-> <<>>,
         failed |-> FALSE, overlapped |-> FALSE, generated |-> FALSE, ret |-> <<>>]

NoCalls == [c \in Callers |-> Idle]

\* Which of the n storage operations of one call fail: any of them.
Fails(n) == [1..n -> BOOLEAN]

\* What an operation leaves in `call`; `failed`: a storage operation of it threw.
Called(op, arg, ret, threw, generated, failed) ==
    [op |-> op, arg |-> arg, ret |-> ret, threw |-> threw, generated |-> generated,
     failed |-> failed]

\* The history stored under challengeHistory ([] when none).
StoredHistory == loadChallengeHistory(storage, FALSE)
\* The batch stored for day d ([] when none).
StoredBatch(d) ==
    IF storage[DailyKey(d)].kind = "json" THEN storage[DailyKey(d)].val ELSE <<>>
\* The profile stored under userData (null when there is none).
StoredProfile == loadUserData(storage, FALSE)
Today == toDateString(tz, now)

\* A fresh install: nothing is stored, the app has not been launched.
Init ==
    /\ tz = "fixed"
    /\ now = DayStart(tz, 1)
    /\ storage = [k \in Keys |-> Absent]
    /\ userPreferences = Null
    /\ challengeHistory = <<>>
    /\ isLoading = TRUE
    /\ userData = Null
    /\ call = Called("none", Null, Null, FALSE, FALSE, FALSE)
    /\ ops = 0
    /\ inflight = NoCalls

\* The clock moves on, up to day `last`.
ClockTo(last) ==
    /\ \E t \in Instants(tz, last) : t > now /\ now' = t
    /\ UNCHANGED <<tz, storage, userPreferences, challengeHistory, isLoading, userData, call>>

Tick == ClockTo(MaxDay)

\* One more step is taken, of the MaxOps a run is followed for; each call
\* returns before the next is made.
Counted == ops < MaxOps /\ ops' = ops + 1 /\ UNCHANGED inflight

\* A step that is not counted; each call returns before the next is made.
Uncounted == UNCHANGED <<ops, inflight>>

\* The app is launched (again): a new generator is constructed (no preferences,
\* an empty history) and App's useEffect runs initializeApp.
InitializeApp ==
    /\ \E f \in Fails(4) :
        LET r == initializeApp(storage, Null, <<>>, now, f[1], f[2], f[3], f[4])
        IN  /\ storage' = r.st
            /\ userData' = r.userData
            /\ userPreferences' = r.prefs
            /\ challengeHistory' = r.hist
            /\ call' = Called("initializeApp", Null, r.loaded, FALSE, FALSE,
                              f[1] \/ (~IsProfile(r.loaded) /\ f[2]) \/ f[3] \/ f[4])
    /\ isLoading' = FALSE
    /\ UNCHANGED <<tz, now>>

\* getTodaysChallenges (HomeScreen's load and refresh).
GetTodaysChallenges ==
    /\ ~isLoading
    /\ \E gen \in generateDailyChallenges(userPreferences, challengeHistory, now), f \in Fails(3) :
        LET r == getTodaysChallenges(storage, challengeHistory, tz, now, gen, f[1], f[2], f[3])
        IN  /\ storage' = r.st
            /\ challengeHistory' = r.hist
            /\ call' = Called("getTodaysChallenges", Today, r.ret, FALSE, r.generated, r.failed)
    /\ UNCHANGED <<tz, now, userPreferences, isLoading, userData>>

\* generateDailyChallenges (uncached): it throws what the generation throws.
GenerateDailyChallenges ==
    /\ ~isLoading
    /\ \E gen \in generateDailyChallenges(userPreferences, challengeHistory, now) :
        call' = Called("generateDailyChallenges", Null, gen.val, gen.threw, ~gen.threw, FALSE)
    /\ UNCHANGED <<tz, now, storage, userPreferences, challengeHistory, isLoading, userData>>

\* saveChallenges, of the batch generateDailyChallenges just returned.
SaveChallenges ==
    /\ ~isLoading
    /\ call.op = "generateDailyChallenges" /\ ~call.threw
    /\ \E f \in Fails(2) :
        LET r == saveChallenges(storage, challengeHistory, tz, now, call.ret, f[1], f[2])
        IN  /\ storage' = r.st
            /\ challengeHistory' = r.hist
            /\ call' = Called("saveChallenges", call.ret, r.ret, FALSE, FALSE, ~r.ret)
    /\ UNCHANGED <<tz, now, userPreferences, isLoading, userData>>

\* saveChallengeHistory, of the batch getTodaysChallenges just returned.
SaveChallengeHistory ==
    /\ ~isLoading
    /\ call.op = "getTodaysChallenges"
    /\ \E f \in Fails(2) :
        LET r == saveChallengeHistory(storage, call.ret, f[1], f[2])
        IN  /\ storage' = r.st
            /\ call' = Called("saveChallengeHistory", call.ret, r.ret, FALSE, FALSE, f[1] \/ f[2])
    /\ UNCHANGED <<tz, now, userPreferences, challengeHistory, isLoading, userData>>

\* saveUserPreferences, from the settings.
SaveUserPreferences ==
    /\ ~isLoading
    /\ \E preferences \in PreferenceChoices, fail \in Fails(1) :
        LET r == saveUserPreferences(storage, preferences, fail[1])
        IN  /\ storage' = r.st
            /\ call' = Called("saveUserPreferences", preferences, r.ret, FALSE, FALSE, fail[1])
    /\ UNCHANGED <<tz, now, userPreferences, challengeHistory, isLoading, userData>>

\* clearAllData
ClearAllData ==
    /\ ~isLoading
    /\ \E fail \in Fails(1) :
        LET r == clearAllData(storage, fail[1])
        IN  /\ storage' = r.st
            /\ call' = Called("clearAllData", Null, r.ret, FALSE, FALSE, fail[1])
    /\ UNCHANGED <<tz, now, userPreferences, challengeHistory, isLoading, userData>>

\* The generator and the app, from a fresh install.
Next ==
    \/ Counted /\ Tick
    \/ Counted /\ InitializeApp
    \/ Counted /\ GetTodaysChallenges
    \/ Counted /\ GenerateDailyChallenges
    \/ Counted /\ SaveChallenges
    \/ Counted /\ SaveUserPreferences
    \/ Counted /\ ClearAllData

Spec == Init /\ [][Next]_vars

\* ------------------------------------------------ the generator on any settings
\* The category lists a settings screen can store: up to MaxCategories of the
\* corpus's categories, in any order, repeated or not.
CategoryLists ==
    UNION { [1..n -> CHALLENGE_TEMPLATES] : n \in 0..MaxCategories }

AllPreferences ==
    { [difficulty |-> d, categories |-> c] : d \in DOMAIN DIFFICULTY_MODIFIERS, c \in CategoryLists }

\* The i-th challenge of a history written before the clock starts.
SeedChallenge(i) ==
    [generateChallengeForCategory("health", 0, DefaultPreferences, <<>>, 0).val
        EXCEPT !.id = <<0, i>>]

SeedHistory(n) == [i \in 1..n |-> SeedChallenge(i)]

\* An installed app, not running, whose settings were stored (or never were),
\* with no history or the history of one earlier batch.
InitSelect ==
    /\ tz = "fixed"
    /\ now = DayStart(tz, 1)
    /\ \E stored \in {Absent} \cup {Stringify(p) : p \in AllPreferences},
          history \in {Absent, Stringify(SeedHistory(BATCH_SIZE))} :
        storage = [k \in Keys |-> IF k = Key("userPreferences") THEN stored
                                  ELSE IF k = Key("challengeHistory") THEN history
                                  ELSE Absent]
    /\ userPreferences = Null
    /\ challengeHistory = <<>>
    /\ isLoading = TRUE
    /\ userData = Null
    /\ call = Called("none", Null, Null, FALSE, FALSE, FALSE)
    /\ ops = 0
    /\ inflight = NoCalls

\* selectCategories, on the configured list.
SelectCategories ==
    /\ ~isLoading
    /\ userPreferences # Null
    /\ \E selected \in selectCategories(userPreferences.categories) :
        call' = Called("selectCategories", userPreferences.categories, selected, FALSE, FALSE, FALSE)
    /\ UNCHANGED <<tz, now, storage, userPreferences, challengeHistory, isLoading, userData>>

\* The generator has just been launched and nothing was called on it since.
Launched == call.op = "initializeApp"

\* One launch, then one operation of the launched generator.
NextSelect ==
    \/ Uncounted /\ isLoading /\ InitializeApp
    \/ Uncounted /\ Launched /\ SelectCategories
    \/ Uncounted /\ Launched /\ GenerateDailyChallenges
    \/ Uncounted /\ Launched /\ GetTodaysChallenges

SpecSelect == InitSelect /\ [][NextSelect]_vars

\* ------------------------------------------- the selection on distinct lists
\* The names a configured list can hold: the corpus's categories and one the
\* corpus has no templates for.
CategoryNames == CHALLENGE_TEMPLATES \cup {"custom"}

\* No entry of the list occurs twice.
PairwiseDistinct(s) == \A i, j \in 1..Len(s) : i # j => s[i] # s[j]

\* The configured lists without a repeated entry, up to one longer than
\* MaxCategories.
DistinctLists ==
    { c \in UNION { [1..n -> CategoryNames] : n \in 0..(MaxCategories + 1) } :
        PairwiseDistinct(c) }

\* An installed app, not running, whose stored settings hold a list without a
\* repeated entry.
InitDraw ==
    /\ tz = "fixed"
    /\ now = DayStart(tz, 1)
    /\ \E c \in DistinctLists :
        storage = [k \in Keys |->
                    IF k = Key("userPreferences")
                    THEN Stringify([difficulty |-> "medium", categories |-> c])
                    ELSE Absent]
    /\ userPreferences = Null
    /\ challengeHistory = <<>>
    /\ isLoading = TRUE
    /\ userData = Null
    /\ call = Called("none", Null, Null, FALSE, FALSE, FALSE)
    /\ ops = 0
    /\ inflight = NoCalls

\* One launch, then one selection or one generation.
NextDraw ==
    \/ Uncounted /\ isLoading /\ InitializeApp
    \/ Uncounted /\ Launched /\ SelectCategories
    \/ Uncounted /\ Launched /\ GenerateDailyChallenges

SpecDraw == InitDraw /\ [][NextDraw]_vars

\* ----------------------------------------------------- the progress tracker
\* The ids updateUserProgress is called with: the challenges of a first batch.
ChallengeIds == {<<DayStart("fixed", 1), 0>>}

\* A fresh install, in any zone.
InitProgress ==
    /\ tz \in Zones
    /\ now = DayStart(tz, 1)
    /\ storage = [k \in Keys |-> Absent]
    /\ userPreferences = Null
    /\ challengeHistory = <<>>
    /\ isLoading = TRUE
    /\ userData = Null
    /\ call = Called("none", Null, Null, FALSE, FALSE, FALSE)
    /\ ops = 0
    /\ inflight = NoCalls

\* updateUserProgress; a failure is drawn only for an operation that runs (no
\* write follows a failed read).
UpdateUserProgress ==
    /\ ~isLoading
    /\ IsProfile(StoredProfile) => Len(StoredProfile.completedChallenges) < MaxCompleted
    /\ \E challengeId \in ChallengeIds, completed \in BOOLEAN,
          f \in {g \in Fails(2) : g[1] => ~g[2]} :
        LET r == updateUserProgress(storage, tz, now, challengeId, completed, f[1], f[2])
        IN  /\ storage' = r.st
            /\ call' = Called("updateUserProgress", <<challengeId, completed>>, r.ret,
                              FALSE, FALSE, f[1] \/ (r.ret /\ f[2]))
    /\ UNCHANGED <<tz, now, userPreferences, challengeHistory, isLoading, userData>>

\* markChallengeCompleted, of a challenge the screen shows or the history holds;
\* a failure is drawn only for an operation that runs (a failed write of the
\* history ends the call, no write follows a failed read of the profile).
MarkChallengeCompleted ==
    /\ ~isLoading
    /\ IsProfile(StoredProfile) => Len(StoredProfile.completedChallenges) < MaxCompleted
    /\ \E challengeId \in ChallengeIds \cup {StoredHistory[i].id : i \in 1..Len(StoredHistory)},
          f \in {g \in Fails(4) : (g[2] => ~(g[3] \/ g[4])) /\ (g[3] => ~g[4])} :
        LET r == markChallengeCompleted(storage, tz, now, challengeId, f[1], f[2], f[3], f[4])
        IN  /\ storage' = r.st
            /\ call' = Called("markChallengeCompleted", <<challengeId, TRUE>>, r.ret, FALSE, FALSE,
                              f[1] \/ f[2] \/ f[3] \/ (IsProfile(StoredProfile) /\ f[4]))
    /\ UNCHANGED <<tz, now, userPreferences, challengeHistory, isLoading, userData>>

TickProgress == ClockTo(MaxProgressDay)

NextProgress ==
    \/ Uncounted /\ TickProgress
    \/ Uncounted /\ isLoading /\ InitializeApp
    \/ Uncounted /\ UpdateUserProgress
    \/ Uncounted /\ MarkChallengeCompleted

SpecProgress == InitProgress /\ [][NextProgress]_vars

\* ------------------------------------------------------------ a long history
\* An installed app, not running, that has stored a profile and a history close
\* to HISTORY_LIMIT entries long.
InitHistory ==
    /\ tz = "fixed"
    /\ now = DayStart(tz, 1)
    /\ \E n \in (HISTORY_LIMIT - MaxShort)..HISTORY_LIMIT :
        storage = [k \in Keys |->
                    IF k = Key("challengeHistory") THEN Stringify(SeedHistory(n))
                    ELSE IF k = Key("userData") THEN Stringify(newUserData(0))
                    ELSE Absent]
    /\ userPreferences = Null
    /\ challengeHistory = <<>>
    /\ isLoading = TRUE
    /\ userData = Null
    /\ call = Called("none", Null, Null, FALSE, FALSE, FALSE)
    /\ ops = 0
    /\ inflight = NoCalls

NextHistory ==
    \/ Counted /\ Tick
    \/ Counted /\ InitializeApp
    \/ Counted /\ GetTodaysChallenges
    \/ Counted /\ SaveChallengeHistory

SpecHistory == InitHistory /\ [][NextHistory]_vars

\* ------------------------------------------------- the log and its writers
\* An installed app, not running, that has stored a profile and the history of
\* one earlier batch.
InitLog ==
    /\ tz = "fixed"
    /\ now = DayStart(tz, 1)
    /\ storage = [k \in Keys |->
                    IF k = Key("challengeHistory") THEN Stringify(SeedHistory(BATCH_SIZE))
                    ELSE IF k = Key("userData") THEN Stringify(newUserData(0))
                    ELSE Absent]
    /\ userPreferences = Null
    /\ challengeHistory = <<>>
    /\ isLoading = TRUE
    /\ userData = Null
    /\ call = Called("none", Null, Null, FALSE, FALSE, FALSE)
    /\ ops = 0
    /\ inflight = NoCalls

\* The generator and the storage service's writers of challengeHistory.
NextLog ==
    \/ Counted /\ Tick
    \/ Counted /\ InitializeApp
    \/ Counted /\ GetTodaysChallenges
    \/ Counted /\ MarkChallengeCompleted
    \/ Counted /\ SaveChallengeHistory
    \/ Counted /\ ClearAllData

SpecLog == InitLog /\ [][NextLog]_vars

\* ------------------------------------------- getTodaysChallenges, overlapping
\* A call is followed from await to await: a storage operation takes effect when
\* it is issued and the caller resumes in a later step.
Resume(c, waiting) == [inflight EXCEPT ![c] = waiting]

\* The call returns `ret` to caller c.
Return(c, ret, generated, failed) ==
    /\ inflight' = Resume(c, [inflight[c] EXCEPT !.pc = "done", !.ret = ret,
                                                 !.generated = generated, !.failed = failed])
    /\ call' = Called("getTodaysChallenges", Today, ret, FALSE, generated, failed)

\* Caller c calls getTodaysChallenges: it runs up to `await getItem(key)`.
StartCall(c) ==
    /\ ~isLoading
    /\ inflight[c].pc = "idle"
    /\ \E fail \in BOOLEAN :
        inflight' = Resume(c, [inflight[c] EXCEPT
            !.pc = "getItem",
            !.got = getItem(storage, DailyKey(Today), fail),
            !.overlapped = \E o \in Callers : inflight[o].pc \notin {"idle", "done"}])
    /\ UNCHANGED <<tz, now, storage, userPreferences, challengeHistory, isLoading, userData,
                   call, ops>>

\* The read has returned: the cached batch is returned, or a batch is generated
\* and saveChallenges runs up to its first `await setItem`.
AfterRead(c) ==
    /\ inflight[c].pc = "getItem"
    /\ LET challenges == inflight[c].got
       IN  IF challenges.threw
           THEN Return(c, <<>>, FALSE, TRUE) /\ UNCHANGED storage
           ELSE IF Truthy(challenges.val)
           THEN /\ Return(c, IF Parse(challenges.val).threw THEN <<>> ELSE Parse(challenges.val).val,
                          FALSE, Parse(challenges.val).threw)
                /\ UNCHANGED storage
           ELSE \E gen \in generateDailyChallenges(userPreferences, challengeHistory, now),
                   fail \in BOOLEAN :
                IF gen.threw
                THEN Return(c, <<>>, FALSE, FALSE) /\ UNCHANGED storage
                ELSE /\ storage' = setItem(storage, DailyKey(Today), Stringify(gen.val), fail).st
                     /\ inflight' = Resume(c, [inflight[c] EXCEPT
                            !.pc = "setItem", !.batch = gen.val, !.failed = fail])
                     /\ UNCHANGED call
    /\ UNCHANGED <<tz, now, userPreferences, challengeHistory, isLoading, userData, ops>>

\* The write of the day's key has returned: the batch is pushed on the in-memory
\* history and saveChallenges runs up to its second `await setItem`.
AfterDayWrite(c) ==
    /\ inflight[c].pc = "setItem"
    /\ IF inflight[c].failed
       THEN /\ Return(c, inflight[c].batch, TRUE, TRUE)
            /\ UNCHANGED <<storage, challengeHistory>>
       ELSE \E fail \in BOOLEAN :
            /\ challengeHistory' = challengeHistory \o inflight[c].batch
            /\ storage' = setItem(storage, Key("challengeHistory"),
                                  Stringify(challengeHistory'), fail).st
            /\ inflight' = Resume(c, [inflight[c] EXCEPT !.pc = "setHistory", !.failed = fail])
            /\ UNCHANGED call
    /\ UNCHANGED <<tz, now, userPreferences, isLoading, userData, ops>>

\* The write of the history has returned: saveChallenges returns and
\* getTodaysChallenges returns the new batch.
AfterHistoryWrite(c) ==
    /\ inflight[c].pc = "setHistory"
    /\ Return(c, inflight[c].batch, TRUE, inflight[c].failed)
    /\ UNCHANGED <<tz, now, storage, userPreferences, challengeHistory, isLoading, userData, ops>>

\* One launch on a fresh install, then one call by each caller, interleaved.
NextOverlap ==
    \/ Uncounted /\ isLoading /\ InitializeApp
    \/ \E c \in Callers : StartCall(c)
    \/ \E c \in Callers : AfterRead(c)
    \/ \E c \in Callers : AfterDayWrite(c)
    \/ \E c \in Callers : AfterHistoryWrite(c)

SpecOverlap == Init /\ [][NextOverlap]_vars

\* ------------------------------------------------------------------- claims
Range(s) == {s[i] : i \in 1..Len(s)}

\* C1: when getTodaysChallenges is called twice on the same calendar day with
\* no other operation in between and every storage operation succeeding, the
\* second call returns the batch the first returned, generates nothing, and
\* leaves the length of the stored challengeHistory as it was.
C1_SecondCallSameBatch ==
    [][(/\ call.op = "getTodaysChallenges" /\ ~call.failed /\ call.arg = Today
        /\ ops' = ops + 1 /\ now' = now
        /\ call'.op = "getTodaysChallenges" /\ ~call'.failed)
       => (/\ call'.ret = call.ret
           /\ ~call'.generated
           /\ Len(StoredHistory') = Len(StoredHistory))]_ops

\* C1's case: launch, a call that generated the day's batch, a second call that
\* returned it from the cache.
C1_Witness ==
    /\ ops = 3 /\ now = DayStart(tz, 1)
    /\ call.op = "getTodaysChallenges" /\ ~call.failed /\ ~call.generated
    /\ Len(call.ret) = BATCH_SIZE
    /\ Len(StoredHistory) = BATCH_SIZE

\* The last k entries of a list.
LastEntries(s, k) == [i \in 1..k |-> s[Len(s) - k + i]]

Min(a, b) == IF a < b THEN a ELSE b

\* C2: whatever operations were called, the history stored under
\* challengeHistory holds at most 100 entries.
C2_StoredHistoryAtMostLimit == Len(StoredHistory) <= HISTORY_LIMIT

\* C3: after saveChallengeHistory(N) returns true on a stored history H, the
\* stored history is the last min(len(H) + len(N), 100) entries of H followed
\* by N, in that order.
C3_SaveKeepsLatest ==
    [][(ops' = ops + 1 /\ now' = now /\ call'.op = "saveChallengeHistory" /\ call'.ret)
       => StoredHistory' =
            LastEntries(StoredHistory \o call'.arg,
                        Min(Len(StoredHistory) + Len(call'.arg), HISTORY_LIMIT))]_ops

\* The calendar day of the last completion record of a profile.
LastCompletedDay(profile) ==
    toDateString(tz, profile.completedChallenges[Len(profile.completedChallenges)].completedAt)

\* A step that is a call updateUserProgress(id, true) which returned true, all
\* its storage operations succeeding, on a profile with an earlier record.
CompletionAfterRecord ==
    /\ call'.op = "updateUserProgress" /\ call'.arg[2] /\ call'.ret /\ ~call'.failed
    /\ storage' # storage
    /\ IsProfile(StoredProfile)
    /\ Len(StoredProfile.completedChallenges) > 0

\* C4: a completion on day D whose most recent earlier record is from day D-2
\* or older leaves currentStreak at 1.
C4_GapResetsStreak ==
    [][(CompletionAfterRecord /\ Today - LastCompletedDay(StoredProfile) >= 2)
       => StoredProfile'.currentStreak = 1]_storage

\* C5: a completion on day D whose most recent earlier record is from day D-1
\* leaves currentStreak one above its previous value.
C5_NextDayExtendsStreak ==
    [][(CompletionAfterRecord /\ Today - LastCompletedDay(StoredProfile) = 1)
       => StoredProfile'.currentStreak = StoredProfile.currentStreak + 1]_storage

\* C6: every challenge generateDailyChallenges produces, and every challenge of
\* a batch getTodaysChallenges freshly generated, has a category that is an
\* entry of the generator's configured category list.
C6_CategoryIsConfigured ==
    (\/ (call.op = "generateDailyChallenges" /\ ~call.threw)
     \/ (call.op = "getTodaysChallenges" /\ call.generated))
    => \A i \in 1..Len(call.ret) : call.ret[i].category \in Range(userPreferences.categories)

\* C6's case: a batch generated from a list of two categories, one repeated.
C6_Witness ==
    /\ call.op = "getTodaysChallenges" /\ call.generated
    /\ userPreferences.categories = <<"health", "learning">>
    /\ Len(call.ret) = BATCH_SIZE
    /\ call.ret[2].category = call.ret[3].category

\* A fresh install: no key holds a value.
NothingStored == \A k \in Keys : storage[k] = Absent

\* C7: on a fresh install loadUserData returns null, the launch stores a
\* profile with currentStreak 0 and totalChallenges 0, and the first
\* getTodaysChallenges returns exactly 3 challenges from one generation, which
\* are the value stored under the day's key (storage operations succeeding).
C7_FreshInstall ==
    [][/\ (/\ NothingStored
           /\ ops' = ops + 1 /\ call'.op = "initializeApp" /\ ~call'.failed)
          => (/\ loadUserData(storage, FALSE) = Null
              /\ call'.ret = Null
              /\ IsProfile(StoredProfile')
              /\ StoredProfile'.currentStreak = 0
              /\ StoredProfile'.totalChallenges = 0
              /\ userData' = StoredProfile')
       /\ (/\ call.op = "initializeApp" /\ ~call.failed /\ call.ret = Null
           /\ \A k \in Keys \ {Key("userData")} : storage[k] = Absent
           /\ ops' = ops + 1 /\ call'.op = "getTodaysChallenges" /\ ~call'.failed)
          => (/\ Len(call'.ret) = BATCH_SIZE
              /\ call'.generated
              /\ storage'[DailyKey(Today)] = Stringify(call'.ret))]_ops

\* C7's case: the first getTodaysChallenges after the first launch.
C7_Witness ==
    /\ ops = 2
    /\ \A k \in Keys \ {Key("userData"), Key("challengeHistory"), DailyKey(Today)} :
         storage[k] = Absent
    /\ call.op = "getTodaysChallenges" /\ call.generated /\ ~call.failed
    /\ Len(call.ret) = BATCH_SIZE
    /\ IsProfile(StoredProfile) /\ StoredProfile.currentStreak = 0

\* C8: for a configured list of one or two categories selectCategories returns
\* exactly 3 categories, each an entry of the list, and generateDailyChallenges
\* yields exactly 3 challenges; with the list ['health'] all 3 are 'health'.
C8_ShortListIsPadded ==
    /\ (call.op = "selectCategories" /\ Len(call.arg) > 0 /\ Len(call.arg) < BATCH_SIZE)
       => (/\ Len(call.ret) = BATCH_SIZE
           /\ \A i \in 1..Len(call.ret) : call.ret[i] \in Range(call.arg))
    /\ (/\ call.op = "generateDailyChallenges" /\ userPreferences # Null
        /\ Len(userPreferences.categories) > 0 /\ Len(userPreferences.categories) < BATCH_SIZE)
       => (/\ ~call.threw
           /\ Len(call.ret) = BATCH_SIZE
           /\ userPreferences.categories = <<"health">>
              => \A i \in 1..BATCH_SIZE : call.ret[i].category = "health")

\* C8's case: three challenges generated from the list ['health'].
C8_Witness ==
    /\ call.op = "generateDailyChallenges" /\ ~call.threw
    /\ userPreferences # Null /\ userPreferences.categories = <<"health">>
    /\ Len(call.ret) = BATCH_SIZE

\* C9: no operation of the generator that the UI can call (initializeAIChallenges
\* within the launch, getTodaysChallenges, generateDailyChallenges,
\* saveChallenges) throws to its caller, whatever storage operations fail.
C9_NoOperationThrows == ~call.threw

\* C10: after initialize() the generator's preferences are not null: they are
\* the stored userPreferences when the read gave them, and the defaults when
\* nothing is stored or the read failed; its history is the stored history or
\* empty.
C10_PreferencesAfterInitialize ==
    call.op = "initializeApp"
    => (/\ userPreferences # Null
        /\ ~Truthy(storage[Key("userPreferences")]) => userPreferences = DefaultPreferences
        /\ (Truthy(storage[Key("userPreferences")]) /\ ~call.failed)
           => userPreferences = storage[Key("userPreferences")].val
        /\ challengeHistory \in {StoredHistory, <<>>})

\* C11: updateUserProgress never throws, and it returns true only when the
\* updated profile was written: a call in which the read or the write of
\* userData failed returns false.
C11_TrueMeansStored ==
    call.op = "updateUserProgress"
    => (/\ ~call.threw
        /\ call.failed => ~call.ret)

\* C12: after clearAllData returns true no key of the layout holds a value:
\* userData, userPreferences, challengeHistory and the key of every day's
\* batch are absent.
C12_ClearLeavesNothing ==
    (call.op = "clearAllData" /\ call.ret) => NothingStored

\* C13: an app start at which a profile is stored under userData leaves the
\* stored profile as it was, whichever storage operations of the start fail.
C13_StartKeepsProfile ==
    [][(/\ IsProfile(StoredProfile)
        /\ ops' = ops + 1 /\ now' = now /\ call'.op = "initializeApp")
       => storage'[Key("userData")] = storage[Key("userData")]]_ops

\* The estimatedTime the claim gives for a difficulty.
ClaimedTime(difficulty) ==
    CASE difficulty = "easy" -> 5
      [] difficulty = "medium" -> 15
      [] difficulty = "hard" -> 30

\* C14: every challenge generated under difficulty easy has estimatedTime 5,
\* under medium 15 and under hard 30, whatever its category and the history.
C14_EstimatedTimeByDifficulty ==
    (\/ (call.op = "generateDailyChallenges" /\ ~call.threw)
     \/ (call.op = "getTodaysChallenges" /\ call.generated))
    => \A i \in 1..Len(call.ret) :
          /\ call.ret[i].difficulty = userPreferences.difficulty
          /\ call.ret[i].estimatedTime = ClaimedTime(userPreferences.difficulty)

\* C14's case: a hard batch generated on a history that is not empty.
C14_Witness ==
    /\ call.op = "generateDailyChallenges" /\ ~call.threw
    /\ userPreferences.difficulty = "hard"
    /\ Len(challengeHistory) > 0
    /\ Len(call.ret) = BATCH_SIZE
    /\ call.ret[1].estimatedTime = 30 /\ call.ret[1].category = "learning"

\* The calendar days on which a profile has a completion record.
CompletionDays(profile) ==
    {toDateString(tz, profile.completedChallenges[i].completedAt) :
        i \in 1..Len(profile.completedChallenges)}

\* The number of consecutive days of `days` that end at day d.
RECURSIVE RunEndingAt(_, _)
RunEndingAt(days, d) == IF d \in days THEN 1 + RunEndingAt(days, d - 1) ELSE 0

\* C15: from a fresh profile, after each completion the stored currentStreak
\* is the number of consecutive calendar days, ending at the day of the latest
\* completion record, that each hold at least one completion record.
C15_StreakCountsConsecutiveDays ==
    (IsProfile(StoredProfile) /\ Len(StoredProfile.completedChallenges) > 0)
    => StoredProfile.currentStreak =
         RunEndingAt(CompletionDays(StoredProfile), LastCompletedDay(StoredProfile))

\* C16: a completion on a day that already holds a completion record leaves
\* currentStreak as it was.
C16_SameDayKeepsStreak ==
    [][(CompletionAfterRecord /\ Today \in CompletionDays(StoredProfile))
       => StoredProfile'.currentStreak = StoredProfile.currentStreak]_storage

\* C17: a non-empty batch that getTodaysChallenges returned is the value stored
\* under the key of its day, and when it was freshly generated its entries are
\* the last entries of the stored challengeHistory, whichever writes failed.
C17_ReturnedBatchIsCached ==
    (call.op = "getTodaysChallenges" /\ Len(call.ret) > 0)
    => (/\ storage[DailyKey(call.arg)] = Stringify(call.ret)
        /\ call.generated
           => (/\ Len(StoredHistory) >= Len(call.ret)
               /\ LastEntries(StoredHistory, Len(call.ret)) = call.ret))

\* C18: when getTodaysChallenges generates a batch, the stored challengeHistory
\* afterwards is the stored challengeHistory just before the call followed by
\* the batch (storage operations of the call succeeding).
C18_GenerationAppends ==
    [][(/\ ops' = ops + 1 /\ now' = now
        /\ call'.op = "getTodaysChallenges" /\ call'.generated /\ ~call'.failed)
       => StoredHistory' = StoredHistory \o call'.ret]_ops

\* C19: when two getTodaysChallenges calls overlap on a day with no cached
\* batch and every storage operation succeeds, both return the same batch of
\* 3, that batch is the one stored for the day, and the stored history has
\* grown by exactly 3 entries.
C19_OverlappingCallsShareBatch ==
    (/\ \A c \in Callers : inflight[c].pc = "done" /\ ~inflight[c].failed
     /\ \E c \in Callers : inflight[c].overlapped
     /\ \A c \in Callers : Len(inflight[c].ret) > 0)
    => (/\ \A c, d \in Callers : inflight[c].ret = inflight[d].ret
        /\ \A c \in Callers : StoredBatch(Today) = inflight[c].ret
        /\ Len(StoredHistory) = BATCH_SIZE)

\* C20: in every state reached from a fresh profile by updateUserProgress and
\* markChallengeCompleted calls, the stored totalChallenges is the number of
\* stored completion records, and a call with completed = true whose storage
\* operations succeed adds exactly one record and exactly 1 to the total.
C20_TotalCountsRecords ==
    [][LET before == StoredProfile
           after == StoredProfile'
       IN  /\ IsProfile(after) => after.totalChallenges = Len(after.completedChallenges)
           /\ (/\ call'.op \in {"updateUserProgress", "markChallengeCompleted"}
               /\ call'.arg[2] /\ ~call'.failed
               /\ IsProfile(before))
              => (/\ Len(after.completedChallenges) = Len(before.completedChallenges) + 1
                  /\ after.totalChallenges = before.totalChallenges + 1)]_storage

\* C20's case: markChallengeCompleted has completed a second challenge.
C20_Witness ==
    /\ call.op = "markChallengeCompleted" /\ ~call.failed
    /\ IsProfile(StoredProfile)
    /\ Len(StoredProfile.completedChallenges) = 2
    /\ StoredProfile.totalChallenges = 2

\* C21: updateUserProgress(id, false) leaves completedChallenges,
\* totalChallenges and currentStreak of the stored profile as they were; and
\* when no profile is stored updateUserProgress returns false and the value
\* under userData stays as it was.
C21_NotCompletedChangesNothing ==
    /\ [](call.op = "updateUserProgress" /\ ~IsProfile(StoredProfile) => ~call.ret)
    /\ [][LET before == StoredProfile
              after == StoredProfile'
          IN  /\ (call'.op = "updateUserProgress" /\ ~call'.arg[2] /\ IsProfile(before))
                 => (/\ IsProfile(after)
                     /\ after.completedChallenges = before.completedChallenges
                     /\ after.totalChallenges = before.totalChallenges
                     /\ after.currentStreak = before.currentStreak)
              /\ (call'.op = "updateUserProgress" /\ ~IsProfile(before))
                 => storage'[Key("userData")] = storage[Key("userData")]]_storage

\* C21's case: updateUserProgress(id, false) has returned true on a profile
\* that holds a completion record.
C21_Witness ==
    /\ call.op = "updateUserProgress" /\ ~call.arg[2] /\ call.ret /\ ~call.failed
    /\ IsProfile(StoredProfile)
    /\ Len(StoredProfile.completedChallenges) = 1
    /\ StoredProfile.currentStreak = 1

\* C22: on a configured list of 3 or more pairwise distinct entries the 3
\* categories selectCategories chooses are pairwise distinct entries of the
\* list, the list is as it was passed, and slot i of a generated batch carries
\* the i-th category of a selection, with index i in its id.
C22_SelectionIsDistinct ==
    /\ (/\ call.op = "selectCategories"
        /\ Len(call.arg) >= BATCH_SIZE /\ PairwiseDistinct(call.arg))
       => (/\ Len(call.ret) = BATCH_SIZE
           /\ PairwiseDistinct(call.ret)
           /\ \A i \in 1..Len(call.ret) : call.ret[i] \in Range(call.arg)
           /\ userPreferences.categories = call.arg)
    /\ (/\ call.op = "generateDailyChallenges" /\ ~call.threw
        /\ Len(userPreferences.categories) >= BATCH_SIZE
        /\ PairwiseDistinct(userPreferences.categories))
       => (/\ Len(call.ret) = BATCH_SIZE
           /\ PairwiseDistinct([i \in 1..Len(call.ret) |-> call.ret[i].category])
           /\ \E selected \in selectCategories(userPreferences.categories) :
                \A i \in 1..Len(call.ret) :
                    /\ call.ret[i].category = selected[i]
                    /\ call.ret[i].id[2] = i - 1)

\* C22's case: three distinct categories selected from a list of four.
C22_Witness ==
    /\ call.op = "selectCategories"
    /\ Len(call.arg) = BATCH_SIZE + 1 /\ PairwiseDistinct(call.arg)
    /\ call.ret = <<call.arg[4], call.arg[2], call.arg[1]>>

====
